---------------------------- MODULE Spec2Model ----------------------------
(***************************************************************************)
(* A model of examples/cfbtool.rs: the name codec (from_b64, decode), the  *)
(* long-mode size column of list_entry, and the `dump` subcommand, both    *)
(* the recursive extraction (dump --all, dump_entry_recursively) and the   *)
(* interactive explorer loop of main.                                      *)
(*                                                                         *)
(* Characters are Unicode codepoints (integers); strings, names and lines  *)
(* of input are sequences of codepoints.  A filesystem path is a sequence  *)
(* of components relative to the current working directory.                *)
(***************************************************************************)
EXTENDS Integers, Sequences, FiniteSets, TLC

VARIABLES
    \* ---- the dump subcommand (main, dump_entry_recursively)
    comp,       \* the opened compound file: container path -> directory node
    all,        \* the --all flag of this invocation
    fs,         \* the filesystem below the working directory: path -> node
    fs0,        \* fs as it was when the current invocation started
    pc,         \* where the process is
    err,        \* the panic that ended the process, "" when none
    stack,      \* dump_entry_recursively: the active `for subentry` loops
    cur,        \* dump_entry_recursively: the arguments of the call in progress
    entries,    \* main: the interactive frame
    input,      \* main: the line last read from stdin
    selection,  \* main: the entry selected last
    stream,     \* main: the stream opened for the selection
    stdout,     \* the lines printed by this invocation
    visited,    \* the container paths this invocation read or opened, in order
    runs,       \* invocations started so far
    \* ---- the name codec
    name,       \* decode: the argument
    made,       \* how `name` was built: its tokens and whether it was prefixed
    decoded,    \* decode: the result, NotYet before the call
    \* ---- the size column
    entry_len,  \* list_entry: entry.len(), as two limbs
    length      \* list_entry: the `length` string, NotYet before the call

vars == <<comp, all, fs, fs0, pc, err, stack, cur, entries, input, selection,
          stream, stdout, visited, runs, name, made, decoded,
          entry_len, length>>

dumpVars == <<comp, all, fs, fs0, pc, err, stack, cur, entries, input,
              selection, stream, stdout, visited, runs>>
codecVars == <<name, made, decoded>>
listVars == <<entry_len, length>>

\* The value of a result variable before the function has been applied.
NotYet == <<>>

(***************************************************************************)
(* Bounds                                                                  *)
(***************************************************************************)
MaxTokens == 3      \* tokens of a name built from the sample tokens
Window == 15        \* entry lengths within this distance of a threshold
MaxRuns == 2        \* invocations of the tool in one working directory

(***************************************************************************)
(* Name codec                                                              *)
(***************************************************************************)
TABLE_PREFIX == 18496       \* '\u{4840}'

Range1Base == 14336         \* 0x3800
Range2Base == 18432         \* 0x4800

\* '0' = 48, 'A' = 65, 'a' = 97, '.' = 46, '_' = 95
from_b64(value) ==
    IF value < 10 THEN value + 48
    ELSE IF value < 36 THEN value - 10 + 65
    ELSE IF value < 62 THEN value - 36 + 97
    ELSE IF value = 62 THEN 46
    ELSE 95

\* decode_char with the second range closed at 0x4840.
decode_char_range2_inclusive(chr) ==
    IF chr >= Range1Base /\ chr < Range2Base
    THEN <<from_b64((chr - Range1Base) % 64), from_b64((chr - Range1Base) \div 64)>>
    ELSE IF chr >= Range2Base /\ chr <= TABLE_PREFIX
    THEN <<from_b64(chr - Range2Base)>>
    ELSE <<chr>>

\* decode_char with the high symbol of a pair pushed first.
decode_char_high_first(chr) ==
    IF chr >= Range1Base /\ chr < Range2Base
    THEN <<from_b64((chr - Range1Base) \div 64), from_b64((chr - Range1Base) % 64)>>
    ELSE IF chr >= Range2Base /\ chr < TABLE_PREFIX
    THEN <<from_b64(chr - Range2Base)>>
    ELSE <<chr>>

\* The body of decode's `for chr in chars`: what one character pushes.
\* value & 0x3f is value % 64 and value >> 6 is value \div 64 (value >= 0).
decode_char(chr) ==
    IF chr >= Range1Base /\ chr < Range2Base
    THEN <<from_b64((chr - Range1Base) % 64), from_b64((chr - Range1Base) \div 64)>>
    ELSE IF chr >= Range2Base /\ chr < TABLE_PREFIX
    THEN <<from_b64(chr - Range2Base)>>
    ELSE <<chr>>

RECURSIVE decode_loop(_, _)
decode_loop(chars, output) ==
    IF chars = <<>> THEN output
    ELSE decode_loop(Tail(chars), output \o decode_char(Head(chars)))

\* decode(name) = <<output, is_table>>
decode(raw) ==
    LET is_table == raw # <<>> /\ Head(raw) = TABLE_PREFIX
        chars == IF is_table THEN Tail(raw) ELSE raw
    IN  <<decode_loop(chars, <<>>), is_table>>

(***************************************************************************)
(* Names given to decode.  A name is built from tokens: a pair of 6-bit    *)
(* symbols packed into one codepoint of the first range, one symbol in a   *)
(* codepoint of the second range, or a literal codepoint; the table marker *)
(* may be prefixed.                                                        *)
(***************************************************************************)
Symbols == 0 .. 63
SymbolSample == {9, 10, 61, 62}
LiteralSample == {65, 14335, TABLE_PREFIX, 18497}
    \* 'A', 0x37FF, 0x4840 (the marker, as a character), 0x4841

Pair(lo, hi) == [t |-> "pair", lo |-> lo, hi |-> hi]
Single(v) == [t |-> "single", v |-> v]
Literal(c) == [t |-> "literal", c |-> c]

AllTokens ==
    {Pair(lo, hi) : lo \in Symbols, hi \in Symbols}
        \cup {Single(v) : v \in Symbols}
        \cup {Literal(c) : c \in LiteralSample}
SampleTokens ==
    {Pair(lo, hi) : lo \in SymbolSample, hi \in {0, 63}}
        \cup {Single(v) : v \in {35, 36}}
        \cup {Literal(c) : c \in {65, TABLE_PREFIX, 18497}}

\* Every one-token name, and the names of up to MaxTokens sample tokens.
TokenSeqs ==
    {<<t>> : t \in AllTokens}
        \cup UNION {[1 .. n -> SampleTokens] : n \in 0 .. MaxTokens}

Codepoint(tok) ==
    CASE tok.t = "pair" -> Range1Base + tok.lo + (tok.hi * 64)
      [] tok.t = "single" -> Range2Base + tok.v
      [] tok.t = "literal" -> tok.c

Pack(tokens, marker) ==
    (IF marker THEN <<TABLE_PREFIX>> ELSE <<>>)
        \o [i \in 1 .. Len(tokens) |-> Codepoint(tokens[i])]

CodecInit ==
    /\ made \in [tokens : TokenSeqs, marker : BOOLEAN]
    /\ name = Pack(made.tokens, made.marker)
    /\ decoded = NotYet

Decode ==
    /\ decoded = NotYet
    /\ decoded' = decode(name)
    /\ UNCHANGED <<name, made>>

(***************************************************************************)
(* list_entry, long mode: the `length` string.  entry.len() is a u64; a    *)
(* length n is kept as two limbs, n = hi * 2^20 + lo with 0 <= lo < 2^20,  *)
(* so that the thresholds and the quotients stay within machine integers.  *)
(***************************************************************************)
Limb == 1048576     \* 2^20

U64(hi, lo) == [hi |-> hi, lo |-> lo]
Ge(n, m) == n.hi > m.hi \/ (n.hi = m.hi /\ n.lo >= m.lo)
Plus(n, d) == U64(n.hi + ((n.lo + d) \div Limb), (n.lo + d) % Limb)

TenBillion == U64(9536, 779264)     \* 10_000_000_000 = 9536 * 2^20 + 779264
HundredMillion == U64(95, 385280)   \* 100_000_000 = 95 * 2^20 + 385280
Million == U64(0, 1000000)          \* 1_000_000

DivGiB(n) == n.hi \div 1024                     \* n / (1 << 30)
DivMiB(n) == n.hi                               \* n / (1 << 20)
DivKiB(n) == (n.hi * 1024) + (n.lo \div 1024)      \* n / (1 << 10)

RECURSIVE Decimal(_)
\* format!("{}", k): the decimal digits of k
Decimal(k) ==
    IF k < 10 THEN <<48 + k>> ELSE Decimal(k \div 10) \o <<48 + (k % 10)>>

\* size_string with binary thresholds: 10 GiB, 100 MiB, 1000 KiB.
size_string_binary_thresholds(n) ==
    IF n.hi >= 10240 THEN Decimal(DivGiB(n)) \o <<32, 71, 66>>
    ELSE IF n.hi >= 100 THEN Decimal(DivMiB(n)) \o <<32, 77, 66>>
    ELSE IF DivKiB(n) >= 1000 THEN Decimal(DivKiB(n)) \o <<32, 107, 66>>
    ELSE Decimal(n.lo) \o <<32, 66, 32>>

\* ' ' = 32, 'G' = 71, 'M' = 77, 'k' = 107, 'B' = 66
size_string(n) ==
    IF Ge(n, TenBillion) THEN Decimal(DivGiB(n)) \o <<32, 71, 66>>
    ELSE IF Ge(n, HundredMillion) THEN Decimal(DivMiB(n)) \o <<32, 77, 66>>
    ELSE IF Ge(n, Million) THEN Decimal(DivKiB(n)) \o <<32, 107, 66>>
    ELSE Decimal(n.lo) \o <<32, 66, 32>>

\* Lengths at and around each threshold, and a few far from all of them.
Lengths ==
    {Plus(U64(0, 0), d) : d \in 0 .. Window}
        \cup {Plus(U64(0, 9999 - Window), d) : d \in 0 .. 2 * Window}
        \cup {Plus(U64(0, 1000000 - Window), d) : d \in 0 .. 2 * Window}
        \cup {Plus(U64(95, 385280 - Window), d) : d \in 0 .. 2 * Window}
        \cup {Plus(U64(9536, 779264 - Window), d) : d \in 0 .. 2 * Window}
        \cup {U64(0, 1048575), U64(1, 0), U64(1023, 1048575), U64(1024, 0),
              U64(10239, 1048575), U64(10240, 0), U64(1073741824, 0)}

ListInit ==
    /\ entry_len \in Lengths
    /\ length = NotYet

ListEntry ==
    /\ length = NotYet
    /\ length' = size_string(entry_len)
    /\ UNCHANGED entry_len

(***************************************************************************)
(* The compound file, as the cfb library presents it: a tree of directory  *)
(* entries addressed by container paths (sequences of raw names) relative  *)
(* to the root storage.  A storage lists its children in the order the     *)
(* library enumerates them.                                                *)
(***************************************************************************)
Storage(children) == [kind |-> "storage", children |-> children]
RootStorage(children) == [kind |-> "root", children |-> children]
Stream(data) == [kind |-> "stream", data |-> data]

ROOT_NAME == <<82, 111, 111, 116, 32, 69, 110, 116, 114, 121>>   \* "Root Entry"

\* A cfb::Entry: name(), path(), is_root(), is_storage(), is_stream()
Entry(c, path) ==
    [name |-> IF path = <<>> THEN ROOT_NAME ELSE path[Len(path)],
     path |-> path,
     kind |-> c[path].kind]

is_root(entry) == entry.kind = "root"
is_storage(entry) == entry.kind \in {"root", "storage"}
is_stream(entry) == entry.kind = "stream"

Ok(v) == [ok |-> TRUE, val |-> v]
Failed == [ok |-> FALSE]

Children(c, path) ==
    [i \in 1 .. Len(c[path].children) |-> Entry(c, path \o <<c[path].children[i]>>)]

\* comp.read_root_storage()
read_root_storage(c) == Children(c, <<>>)

\* comp.read_storage(path): the path is resolved from the root storage
read_storage(c, path) ==
    IF path \in DOMAIN c /\ c[path].kind # "stream"
    THEN Ok(Children(c, path))
    ELSE Failed

\* comp.open_stream(path): the path is resolved from the root storage
open_stream(c, path) ==
    IF path \in DOMAIN c /\ c[path].kind = "stream"
    THEN Ok([path |-> path, data |-> c[path].data])
    ELSE Failed

\* An entry's name used as a path argument: a path of one component.
NameAsPath(entry_name) == <<entry_name>>

\* Raw names: 'A' .. 'E', and two escaped ones.
nA == <<65>>
nB == <<66>>
nC == <<67>>
nD == <<68>>
nE == <<69>>
nPackedAB == <<15050>>      \* 0x3800 + 10 + (11 << 6): decodes to "AB"
nPackedA == <<18442>>       \* 0x4800 + 10: decodes to "A"

\* root { A { B }, B }: a name of a nested stream also names a root stream
TreeShadowedStream ==
    (<<>> :> RootStorage(<<nA, nB>>))
        @@ (<<nA>> :> Storage(<<nB>>))
        @@ (<<nA, nB>> :> Stream(<<1>>))
        @@ (<<nB>> :> Stream(<<2, 2>>))

\* root { A { C { D } }, C { E }, E }: the same, for a nested storage
TreeShadowedStorage ==
    (<<>> :> RootStorage(<<nA, nC, nE>>))
        @@ (<<nA>> :> Storage(<<nC>>))
        @@ (<<nA, nC>> :> Storage(<<nD>>))
        @@ (<<nA, nC, nD>> :> Stream(<<1>>))
        @@ (<<nC>> :> Storage(<<nE>>))
        @@ (<<nC, nE>> :> Stream(<<2, 2>>))
        @@ (<<nE>> :> Stream(<<3>>))

\* root { A { B, C { } } }: nested names that name nothing in the root
TreeNested ==
    (<<>> :> RootStorage(<<nA>>))
        @@ (<<nA>> :> Storage(<<nB, nC>>))
        @@ (<<nA, nB>> :> Stream(<<1>>))
        @@ (<<nA, nC>> :> Storage(<<>>))

\* root { "AB" packed, E { } }: one level only, with an escaped name
TreeFlat ==
    (<<>> :> RootStorage(<<nPackedAB, nE>>))
        @@ (<<nPackedAB>> :> Stream(<<3, 4>>))
        @@ (<<nE>> :> Storage(<<>>))

\* root { "A" packed, A }: two raw names with one decoded name
TreeSameDecodedName ==
    (<<>> :> RootStorage(<<nPackedA, nA>>))
        @@ (<<nPackedA>> :> Stream(<<5>>))
        @@ (<<nA>> :> Stream(<<6>>))

\* root { }
TreeEmpty == (<<>> :> RootStorage(<<>>))

Trees == {TreeShadowedStream, TreeShadowedStorage, TreeNested, TreeFlat,
          TreeSameDecodedName, TreeEmpty}

(***************************************************************************)
(* The filesystem below the working directory: path -> node.  The working  *)
(* directory itself is the empty path and always exists.                   *)
(***************************************************************************)
Dir == [kind |-> "dir"]
File(bytes) == [kind |-> "file", bytes |-> bytes]

Parent(p) == SubSeq(p, 1, Len(p) - 1)

ParentIsDir(f, p) ==
    Len(p) = 1 \/ (Parent(p) \in DOMAIN f /\ f[Parent(p)].kind = "dir")

\* fs::create_dir(p): fails when p exists or its parent is no directory
create_dir(f, p) ==
    IF p # <<>> /\ p \notin DOMAIN f /\ ParentIsDir(f, p)
    THEN Ok(f @@ (p :> Dir))
    ELSE Failed

\* The open without create_new: an existing file is truncated and written.
create_or_truncate(f, p, bytes) ==
    IF p # <<>> /\ ParentIsDir(f, p) /\ (p \in DOMAIN f => f[p].kind = "file")
    THEN Ok((p :> File(bytes)) @@ f)
    ELSE Failed

\* File::options()...create_new(true).open(p) followed by io::copy of the
\* whole stream: fails when p exists or its parent is no directory
create_new_and_copy(f, p, bytes) ==
    IF p # <<>> /\ p \notin DOMAIN f /\ ParentIsDir(f, p)
    THEN Ok(f @@ (p :> File(bytes)))
    ELSE Failed

sRoot == <<114, 111, 111, 116>>         \* "root"
sDump == <<46, 100, 117, 109, 112>>     \* ".dump"

\* The working directory before the first invocation: empty, or holding a
\* file "o".
InitialFilesystems == {<<>>, (<<<<111>>>> :> File(<<9>>))}

(***************************************************************************)
(* Lines of standard input                                                 *)
(***************************************************************************)
IsWhitespace(ch) == ch \in {9, 10, 11, 12, 13, 32}

RECURSIVE TrimStart(_)
TrimStart(s) ==
    IF s # <<>> /\ IsWhitespace(Head(s)) THEN TrimStart(Tail(s)) ELSE s

RECURSIVE TrimEnd(_)
TrimEnd(s) ==
    IF s # <<>> /\ IsWhitespace(s[Len(s)])
    THEN TrimEnd(SubSeq(s, 1, Len(s) - 1))
    ELSE s

\* str::trim
trim(s) == TrimEnd(TrimStart(s))

IsDigit(ch) == ch >= 48 /\ ch <= 57

RECURSIVE DigitsValue(_)
DigitsValue(s) ==
    IF s = <<>> THEN 0
    ELSE (DigitsValue(SubSeq(s, 1, Len(s) - 1)) * 10) + (s[Len(s)] - 48)

\* str::parse::<usize>: an optional '+', then one or more decimal digits.
\* -1 stands for Err.
parse_usize(s) ==
    LET digits == IF s # <<>> /\ s[1] = 43 THEN Tail(s) ELSE s
    IN  IF digits # <<>> /\ \A i \in 1 .. Len(digits) : IsDigit(digits[i])
        THEN DigitsValue(digits)
        ELSE -1

RECURSIVE SplitPath(_, _)
\* The components of a relative path string, split at '/'.
SplitPath(s, component) ==
    IF s = <<>> THEN (IF component = <<>> THEN <<>> ELSE <<component>>)
    ELSE IF Head(s) = 47
         THEN (IF component = <<>> THEN <<>> ELSE <<component>>)
                  \o SplitPath(Tail(s), <<>>)
         ELSE SplitPath(Tail(s), component \o <<Head(s)>>)

PathOf(s) == SplitPath(s, <<>>)

\* "q\n", " q \n", "0\n", "1\n", "2\n", "+1\n", "01\n", "-1\n", "x\n",
\* "1x\n", "\n", and end of input
SelectionLines ==
    {<<113, 10>>, <<32, 113, 32, 10>>, <<48, 10>>, <<49, 10>>, <<50, 10>>,
     <<43, 49, 10>>, <<48, 49, 10>>, <<45, 49, 10>>, <<120, 10>>,
     <<49, 120, 10>>, <<10>>, <<>>}

\* "o\n", " n\n", "d/f\n", "root\n", "\n"
LocationLines ==
    {<<111, 10>>, <<32, 110, 10>>, <<100, 47, 102, 10>>,
     <<114, 111, 111, 116, 10>>, <<10>>}

(***************************************************************************)
(* main, Command::Dump                                                     *)
(***************************************************************************)
NoEntry == [name |-> <<>>, path |-> <<>>, kind |-> "none"]
NoStream == [path |-> <<>>, data |-> <<>>]
NoCall == [entry |-> NoEntry, output_dir |-> <<>>]

\* The `for (index, subentry)` loop and the prompt that follows it.
Listing(es) ==
    [i \in 1 .. Len(es) |-> <<"[{index}] {}", i - 1, decode(es[i].name)[1]>>]
        \o << <<"Inspect?: ">> >>

DumpInit ==
    /\ comp \in Trees
    /\ fs \in InitialFilesystems
    /\ fs0 = fs
    /\ all = FALSE
    /\ pc = "shell"
    /\ err = ""
    /\ stack = <<>>
    /\ cur = NoCall
    /\ entries = <<>>
    /\ input = <<>>
    /\ selection = NoEntry
    /\ stream = NoStream
    /\ stdout = <<>>
    /\ visited = <<>>
    /\ runs = 0

Panic(message) ==
    /\ pc' = "panicked"
    /\ err' = message

\* The tool is started with `dump [--all] <path>`: lines 170-188.  The run
\* goes on to the call of dump_entry_recursively (--all) or to the first
\* read of a selection.
Main(flag) ==
    /\ pc \in {"shell", "exited", "panicked"}
    /\ runs < MaxRuns
    /\ runs' = runs + 1
    /\ all' = flag
    /\ fs0' = fs
    /\ entries' = read_root_storage(comp)
    /\ stack' = <<>>
    /\ input' = <<>>
    /\ selection' = NoEntry
    /\ stream' = NoStream
    /\ visited' = <<>>
    /\ IF flag
       THEN LET made_dir == create_dir(fs, <<sRoot>>)
            IN  /\ stdout' = <<>>
                /\ IF made_dir.ok
                   THEN /\ fs' = made_dir.val
                        /\ cur' = [entry |-> Entry(comp, <<>>),
                                   output_dir |-> <<sRoot>>]
                        /\ pc' = "call"
                        /\ err' = ""
                   ELSE /\ Panic("fs::create_dir(&output_dir).unwrap()")
                        /\ cur' = NoCall
                        /\ fs' = fs
       ELSE /\ stdout' = Listing(entries')
            /\ pc' = "read_selection"
            /\ err' = ""
            /\ cur' = NoCall
            /\ fs' = fs
    /\ UNCHANGED <<comp, codecVars, listVars>>

\* The comparison with "q" made on the line as read.
IsQuit_untrimmed(line) == line = <<113>>

IsQuit(line) == trim(line) = <<113>>        \* input == "q"

\* Lines 189-196: the selection read is "q".
Quit ==
    /\ pc = "read_selection"
    /\ \E line \in SelectionLines :
          /\ IsQuit(line)
          /\ input' = trim(line)
    /\ pc' = "exited"
    /\ UNCHANGED <<comp, all, fs, fs0, err, stack, cur, entries, selection,
                   stream, stdout, visited, runs, codecVars, listVars>>

\* Lines 198-200: the selection is no number.
SelectionNotANumber ==
    /\ pc = "read_selection"
    /\ \E line \in SelectionLines :
          /\ ~IsQuit(line)
          /\ parse_usize(trim(line)) = -1
          /\ input' = trim(line)
    /\ Panic("Selection was not a valid number or 'q'")
    /\ UNCHANGED <<comp, all, fs, fs0, stack, cur, entries, selection,
                   stream, stdout, visited, runs, codecVars, listVars>>

\* An index outside the frame answered by reading a selection again.
SelectionOutOfRange_reprompt ==
    /\ pc = "read_selection"
    /\ \E line \in SelectionLines :
          /\ ~IsQuit(line)
          /\ parse_usize(trim(line)) >= Len(entries)
          /\ input' = trim(line)
    /\ UNCHANGED <<comp, all, fs, fs0, pc, err, stack, cur, entries,
                   selection, stream, stdout, visited, runs, codecVars,
                   listVars>>

\* Lines 201-203: entries.get(selected_index) is None.
SelectionOutOfRange ==
    /\ pc = "read_selection"
    /\ \E line \in SelectionLines :
          /\ ~IsQuit(line)
          /\ parse_usize(trim(line)) >= Len(entries)
          /\ input' = trim(line)
    /\ Panic("Selected index was invalid")
    /\ UNCHANGED <<comp, all, fs, fs0, stack, cur, entries, selection,
                   stream, stdout, visited, runs, codecVars, listVars>>

\* The entry a line selects in the frame, NoEntry when it selects none.
Selected(line, frame) ==
    LET selected_index == parse_usize(trim(line))
    IN  IF ~IsQuit(line) /\ selected_index >= 0 /\ selected_index < Len(frame)
        THEN frame[selected_index + 1]
        ELSE NoEntry

\* Lines 205-209, then 182-188: the selection is a storage.
SelectStorage ==
    /\ pc = "read_selection"
    /\ \E line \in SelectionLines :
          /\ is_storage(Selected(line, entries))
          /\ input' = trim(line)
          /\ selection' = Selected(line, entries)
    /\ LET read == read_storage(comp, NameAsPath(selection'.name))
       IN  IF read.ok
           THEN /\ entries' = read.val
                /\ visited' = Append(visited, NameAsPath(selection'.name))
                /\ stdout' = stdout \o Listing(read.val)
                /\ UNCHANGED <<pc, err>>
           ELSE /\ Panic("Failed to read storage for selection")
                /\ UNCHANGED <<entries, visited, stdout>>
    /\ UNCHANGED <<comp, all, fs, fs0, stack, cur, stream, runs, codecVars,
                   listVars>>

\* Lines 210-214: the selection is a stream.
SelectStream ==
    /\ pc = "read_selection"
    /\ \E line \in SelectionLines :
          /\ is_stream(Selected(line, entries))
          /\ input' = trim(line)
          /\ selection' = Selected(line, entries)
    /\ LET opened == open_stream(comp, NameAsPath(selection'.name))
       IN  IF opened.ok
           THEN /\ stream' = opened.val
                /\ visited' = Append(visited, NameAsPath(selection'.name))
                /\ stdout' = Append(stdout, <<"Stream dump location: ">>)
                /\ pc' = "read_location"
                /\ UNCHANGED err
           ELSE /\ Panic("Failed to read stream for selection")
                /\ UNCHANGED <<stream, visited, stdout>>
    /\ UNCHANGED <<comp, all, fs, fs0, stack, cur, entries, runs, codecVars,
                   listVars>>

\* Lines 215-236: the location is read, the file created and written.
DumpSelectedStream ==
    /\ pc = "read_location"
    /\ \E line \in LocationLines : input' = trim(line)
    /\ stdout' = Append(stdout, <<"Dumping stream [{}] to [{}]",
                                  selection.name, input'>>)
    /\ LET new_file == create_new_and_copy(fs, PathOf(input'), stream.data)
       IN  IF new_file.ok
           THEN /\ fs' = new_file.val
                /\ pc' = "exited"
                /\ UNCHANGED err
           ELSE /\ Panic("Failed to create new file")
                /\ UNCHANGED fs
    /\ UNCHANGED <<comp, all, fs0, stack, cur, entries, selection, stream,
                   visited, runs, codecVars, listVars>>

(***************************************************************************)
(* dump_entry_recursively.  `cur` holds the arguments of the call being    *)
(* entered; each element of `stack` is one running `for subentry` loop:    *)
(* its entries, the index of the next one and its output_dir.              *)
(***************************************************************************)
Top == stack[Len(stack)]

\* Lines 248-255: the entry is the root or a storage; its children are read.
DumpStorage ==
    /\ pc = "call"
    /\ is_storage(cur.entry)
    /\ LET read == IF is_root(cur.entry)
                   THEN Ok(read_root_storage(comp))
                   ELSE read_storage(comp, NameAsPath(cur.entry.name))
           read_path == IF is_root(cur.entry) THEN <<>>
                        ELSE NameAsPath(cur.entry.name)
       IN  IF read.ok
           THEN /\ stack' = Append(stack, [entries |-> read.val, next |-> 1,
                                           output_dir |-> cur.output_dir])
                /\ visited' = Append(visited, read_path)
                /\ pc' = "loop"
                /\ UNCHANGED err
           ELSE /\ Panic("comp.read_storage(entry.name()).unwrap()")
                /\ UNCHANGED <<stack, visited>>
    /\ UNCHANGED <<comp, all, fs, fs0, cur, entries, input, selection, stream,
                   stdout, runs, codecVars, listVars>>

\* Lines 257-260: the next subentry; its directory is created and the
\* function called on it.
DumpSubentry ==
    /\ pc = "loop"
    /\ Top.next <= Len(Top.entries)
    /\ LET subentry == Top.entries[Top.next]
           output_dir == Top.output_dir \o <<decode(subentry.name)[1]>>
           made_dir == create_dir(fs, output_dir)
       IN  IF made_dir.ok
           THEN /\ fs' = made_dir.val
                /\ stack' = [stack EXCEPT ![Len(stack)].next = @ + 1]
                /\ cur' = [entry |-> subentry, output_dir |-> output_dir]
                /\ pc' = "call"
                /\ UNCHANGED err
           ELSE /\ Panic("fs::create_dir(output_dir.clone()).unwrap()")
                /\ UNCHANGED <<fs, stack, cur>>
    /\ UNCHANGED <<comp, all, fs0, entries, input, selection, stream, stdout,
                   visited, runs, codecVars, listVars>>

\* Lines 261-262: the loop is over and the call returns, to the loop of
\* the caller or (line 178) out of main.
DumpReturn ==
    /\ pc = "loop"
    /\ Top.next > Len(Top.entries)
    /\ stack' = SubSeq(stack, 1, Len(stack) - 1)
    /\ pc' = IF Len(stack) = 1 THEN "exited" ELSE "loop"
    /\ UNCHANGED <<comp, all, fs, fs0, err, cur, entries, input, selection,
                   stream, stdout, visited, runs, codecVars, listVars>>

\* Lines 265-282: the entry is a stream; it is opened, its file created
\* and written, and the call returns.
DumpStream ==
    /\ pc = "call"
    /\ ~is_storage(cur.entry)
    /\ LET opened == open_stream(comp, NameAsPath(cur.entry.name))
           decoded_name == decode(cur.entry.name)[1]
           output_location == cur.output_dir \o <<decoded_name \o sDump>>
       IN  IF ~opened.ok
           THEN /\ Panic("Failed to read stream for selection")
                /\ UNCHANGED <<fs, stdout, visited>>
           ELSE /\ visited' = Append(visited, NameAsPath(cur.entry.name))
                /\ stdout' = Append(stdout, <<"Dumping stream [{}] to [{:#?}]",
                                              decoded_name, output_location>>)
                /\ LET new_file == create_new_and_copy(fs, output_location,
                                                       opened.val.data)
                   IN  IF new_file.ok
                       THEN /\ fs' = new_file.val
                            /\ pc' = "loop"
                            /\ UNCHANGED err
                       ELSE /\ Panic("Failed to create new file")
                            /\ UNCHANGED fs
    /\ UNCHANGED <<comp, all, fs0, stack, cur, entries, input, selection,
                   stream, runs, codecVars, listVars>>

(***************************************************************************)
(* Specifications                                                          *)
(***************************************************************************)
CodecIdle ==
    /\ name = <<>>
    /\ made = [tokens |-> <<>>, marker |-> FALSE]
    /\ decoded = NotYet

ListIdle ==
    /\ entry_len = U64(0, 0)
    /\ length = NotYet

DumpIdle ==
    /\ comp = TreeEmpty
    /\ fs = <<>>
    /\ fs0 = <<>>
    /\ all = FALSE
    /\ pc = "shell"
    /\ err = ""
    /\ stack = <<>>
    /\ cur = NoCall
    /\ entries = <<>>
    /\ input = <<>>
    /\ selection = NoEntry
    /\ stream = NoStream
    /\ stdout = <<>>
    /\ visited = <<>>
    /\ runs = 0

\* The dump subcommand, run up to MaxRuns times in one working directory.
Init == DumpInit /\ CodecIdle /\ ListIdle

Next ==
    \/ \E flag \in BOOLEAN : Main(flag)
    \/ Quit
    \/ SelectionNotANumber
    \/ SelectionOutOfRange
    \/ SelectStorage
    \/ SelectStream
    \/ DumpSelectedStream
    \/ DumpStorage
    \/ DumpSubentry
    \/ DumpReturn
    \/ DumpStream

Spec == Init /\ [][Next]_vars

\* decode applied to one name.
InitCodec == CodecInit /\ DumpIdle /\ ListIdle

DecodeName == Decode /\ UNCHANGED <<dumpVars, listVars>>

NextCodec == DecodeName

SpecCodec == InitCodec /\ [][NextCodec]_vars

\* list_entry's size column applied to one length.
InitList == ListInit /\ DumpIdle /\ CodecIdle

FormatLength == ListEntry /\ UNCHANGED <<dumpVars, codecVars>>

NextList == FormatLength

SpecList == InitList /\ [][NextList]_vars

(***************************************************************************)
(* Properties of the name codec (checked under SpecCodec)                  *)
(***************************************************************************)
\* The alphabet 0-9, A-Z, a-z, '.', '_', by symbol value.
Alphabet ==
    <<48, 49, 50, 51, 52, 53, 54, 55, 56, 57,
      65, 66, 67, 68, 69, 70, 71, 72, 73, 74, 75, 76, 77,
      78, 79, 80, 81, 82, 83, 84, 85, 86, 87, 88, 89, 90,
      97, 98, 99, 100, 101, 102, 103, 104, 105, 106, 107, 108, 109,
      110, 111, 112, 113, 114, 115, 116, 117, 118, 119, 120, 121, 122,
      46, 95>>

RECURSIVE SymbolChars(_)
\* The characters of the symbols a sequence of pair and single tokens packs,
\* in the order of the original symbol sequence (a pair: low symbol first).
SymbolChars(tokens) ==
    IF tokens = <<>> THEN <<>>
    ELSE (IF Head(tokens).t = "pair"
          THEN <<Alphabet[Head(tokens).lo + 1], Alphabet[Head(tokens).hi + 1]>>
          ELSE <<Alphabet[Head(tokens).v + 1]>>)
             \o SymbolChars(Tail(tokens))

OnlySymbols(tokens) ==
    \A i \in 1 .. Len(tokens) : tokens[i].t \in {"pair", "single"}

\* C8: decoding a name packed from 6-bit symbols (pairs in the first range
\* with the first symbol in the low bits, singles in the second range),
\* with or without the table marker prefixed, yields the characters of the
\* symbols in their original order, and is_table exactly when the marker
\* was prefixed.
C8_DecodeRoundTrip ==
    (decoded # NotYet /\ OnlySymbols(made.tokens))
        => decoded = <<SymbolChars(made.tokens), made.marker>>

C8_Witness ==
    /\ decoded # NotYet
    /\ made.marker
    /\ made.tokens = <<Pair(9, 63), Single(35), Pair(62, 0)>>
    /\ decoded = <<<<57, 95, 90, 46, 48>>, TRUE>>       \* "9_Z.0"

\* Whether token i of the name is a table marker consumed as the prefix.
IsLeadingMarker(i) ==
    i = 1 /\ ~made.marker /\ made.tokens[1] = Literal(TABLE_PREFIX)

Width(i) ==
    IF made.tokens[i].t = "pair" THEN 2
    ELSE IF IsLeadingMarker(i) THEN 0
    ELSE 1

RECURSIVE WidthBefore(_)
WidthBefore(i) == IF i = 1 THEN 0 ELSE WidthBefore(i - 1) + Width(i - 1)

IsPlain ==
    /\ ~made.marker
    /\ \A i \in 1 .. Len(made.tokens) :
          /\ made.tokens[i].t = "literal"
          /\ made.tokens[i].c # TABLE_PREFIX

\* C9: a name with no codepoint of either range and no table marker decodes
\* to (name, false); and in any name, every codepoint outside both ranges
\* that is not a leading table marker is emitted unmodified at its position
\* in the output.
C9_DecodePlainIdentity ==
    decoded # NotYet =>
        /\ IsPlain => decoded = <<name, FALSE>>
        /\ \A i \in 1 .. Len(made.tokens) :
              (made.tokens[i].t = "literal" /\ ~IsLeadingMarker(i))
                  => /\ WidthBefore(i) + 1 <= Len(decoded[1])
                     /\ decoded[1][WidthBefore(i) + 1] = made.tokens[i].c

C9_Witness ==
    /\ decoded # NotYet
    /\ made.tokens = <<Literal(TABLE_PREFIX), Pair(10, 63), Literal(TABLE_PREFIX)>>
    /\ ~made.marker
    /\ decoded = <<<<65, 95, TABLE_PREFIX>>, TRUE>>

(***************************************************************************)
(* Properties of the size column (checked under SpecList)                  *)
(***************************************************************************)
\* The number a string of decimal digits followed by a 3-character unit
\* spells, and that unit.
NumberOf(str) == DigitsValue(SubSeq(str, 1, Len(str) - 3))
UnitOf(str) == SubSeq(str, Len(str) - 2, Len(str))
AllDigits(str) == \A i \in 1 .. Len(str) - 3 : IsDigit(str[i])

\* C10: the size string is <n / 2^30> GB when n >= 10_000_000_000, else
\* <n / 2^20> MB when n >= 100_000_000, else <n / 2^10> kB when
\* n >= 1_000_000, else <n> B ; 9_999 gives "9999 B ", 1_000_000 gives
\* "976 kB", 100_000_000 gives "95 MB" and 10_000_000_000 gives "9 GB".
C10_SizeString ==
    length # NotYet =>
        /\ Len(length) > 3 /\ AllDigits(length)
        /\ IF Ge(entry_len, TenBillion)
           THEN NumberOf(length) * 1024 <= entry_len.hi
                    /\ entry_len.hi < (NumberOf(length) + 1) * 1024
                    /\ UnitOf(length) = <<32, 71, 66>>
           ELSE IF Ge(entry_len, HundredMillion)
           THEN NumberOf(length) = entry_len.hi
                    /\ UnitOf(length) = <<32, 77, 66>>
           ELSE IF Ge(entry_len, Million)
           THEN NumberOf(length) * 1024 <= (entry_len.hi * Limb) + entry_len.lo
                    /\ (entry_len.hi * Limb) + entry_len.lo
                           < (NumberOf(length) + 1) * 1024
                    /\ UnitOf(length) = <<32, 107, 66>>
           ELSE NumberOf(length) = entry_len.lo /\ entry_len.hi = 0
                    /\ UnitOf(length) = <<32, 66, 32>>
        /\ entry_len = U64(0, 9999) => length = <<57, 57, 57, 57, 32, 66, 32>>
        /\ entry_len = Million => length = <<57, 55, 54, 32, 107, 66>>
        /\ entry_len = HundredMillion => length = <<57, 53, 32, 77, 66>>
        /\ entry_len = TenBillion => length = <<57, 32, 71, 66>>

C10_Witness ==
    /\ entry_len = TenBillion
    /\ length = <<57, 32, 71, 66>>      \* "9 GB"

(***************************************************************************)
(* Properties of the dump subcommand (checked under Spec)                  *)
(***************************************************************************)
\* The filesystem path that mirrors a container path: decoded names.
DecodedPath(path) == [i \in 1 .. Len(path) |-> decode(path[i])[1]]

ContainerPaths(kinds) == {p \in DOMAIN comp : comp[p].kind \in kinds}

Completed == pc = "exited" /\ all

\* C1: when a recursive dump has completed, each stream is a regular file
\* <decoded-name>.dump directly inside the directory of its parent storage,
\* with the stream's bytes, and there is no filesystem entry named after
\* the stream itself.
C1_StreamFileInParentDirectory ==
    Completed =>
        \A p \in ContainerPaths({"stream"}) :
            LET parent_dir == <<sRoot>> \o DecodedPath(Parent(p))
                decoded_name == decode(p[Len(p)])[1]
            IN  /\ parent_dir \o <<decoded_name \o sDump>> \in DOMAIN fs
                /\ fs[parent_dir \o <<decoded_name \o sDump>>]
                       = File(comp[p].data)
                /\ parent_dir \o <<decoded_name>> \notin DOMAIN fs

Visits(path) == Cardinality({i \in 1 .. Len(visited) : visited[i] = path})

\* C2: when a recursive dump has completed, every storage and every stream
\* of the tree has been visited exactly once, and every storage, at any
\* depth, has its directory at the path that mirrors its container path.
C2_WalkVisitsWholeTree ==
    Completed =>
        /\ \A p \in DOMAIN comp : Visits(p) = 1
        /\ \A p \in ContainerPaths({"storage"}) :
              /\ <<sRoot>> \o DecodedPath(p) \in DOMAIN fs
              /\ fs[<<sRoot>> \o DecodedPath(p)] = Dir

\* Every entry of the filesystem is left as it was by the step.
Preserved == \A p \in DOMAIN fs : p \in DOMAIN fs' /\ fs'[p] = fs[p]

\* The step is a creation step whose target exists already.
CreationTargetExists ==
    \/ /\ pc \in {"shell", "exited", "panicked"}
       /\ runs' = runs + 1 /\ all'
       /\ <<sRoot>> \in DOMAIN fs
    \/ /\ pc = "loop" /\ Top.next <= Len(Top.entries)
       /\ Top.output_dir \o <<decode(Top.entries[Top.next].name)[1]>>
              \in DOMAIN fs
    \/ /\ pc = "call" /\ is_stream(cur.entry)
       /\ cur.output_dir \o <<decode(cur.entry.name)[1] \o sDump>>
              \in DOMAIN fs
    \/ /\ pc = "read_location"
       /\ PathOf(input') \in DOMAIN fs

\* C3: no step of a dump changes or removes a file or directory that
\* existed before it; a creation step whose target exists aborts the run
\* and changes nothing; and a second `dump --all` in a working directory
\* that holds `root` fails at the creation of `root`, the filesystem left
\* as the invocation found it.
C3_NeverOverwrites ==
    [][/\ Preserved
       /\ CreationTargetExists => (pc' = "panicked" /\ fs' = fs)
       /\ (runs' >= 2 /\ all' /\ <<sRoot>> \in DOMAIN fs0')
             => /\ pc' = "panicked"
                /\ err' = "fs::create_dir(&output_dir).unwrap()"
                /\ fs' = fs0']_vars

\* The second of two recursive dumps of a one-level container has failed.
C3_Witness ==
    /\ runs = 2 /\ all
    /\ pc = "panicked" /\ err = "fs::create_dir(&output_dir).unwrap()"
    /\ fs = fs0
    /\ <<sRoot, <<65, 66>>, <<65, 66, 46, 100, 117, 109, 112>>>> \in DOMAIN fs
    /\ <<<<111>>>> \in DOMAIN fs

\* C4: selecting a storage, after any descents, replaces the frame with the
\* children of the selected entry at its position in the tree, returns to
\* the listing and writes nothing.
C4_StorageSelectionListsItsChildren ==
    [][(pc = "read_selection" /\ is_storage(Selected(input', entries)))
          => /\ entries' = Children(comp, Selected(input', entries).path)
             /\ pc' = "read_selection"
             /\ fs' = fs]_vars

\* C5: a session that ended by extracting a selected stream has created
\* exactly the file at the location given, which did not exist, holding the
\* content of the selected stream.
C5_StreamSelectionCopiesItsContent ==
    (pc = "exited" /\ ~all /\ is_stream(selection))
        => /\ PathOf(input) \notin DOMAIN fs0
           /\ fs = fs0 @@ (PathOf(input) :> File(comp[selection.path].data))

\* C6: "q" at a selection prompt, first or after descents, ends the session
\* normally, with nothing printed by the step and the filesystem as the
\* session found it.
C6_QuitIsClean ==
    [][(pc = "read_selection" /\ input' = <<113>>)
          => /\ pc' = "exited" /\ err' = ""
             /\ stdout' = stdout
             /\ fs' = fs /\ fs' = fs0']_vars

C6_Witness ==
    /\ pc = "exited" /\ ~all
    /\ input = <<113>>
    /\ Len(visited) >= 1
    /\ fs = fs0

\* C7: a selection other than "q" that is no number, or a number that is no
\* index of the frame, aborts the session: no new prompt, the frame
\* unchanged, nothing written.
C7_BadSelectionAborts ==
    [][(/\ pc = "read_selection"
        /\ input' # <<113>>
        /\ \/ parse_usize(input') = -1
           \/ parse_usize(input') >= Len(entries))
          => /\ pc' = "panicked"
             /\ err' \in {"Selection was not a valid number or 'q'",
                          "Selected index was invalid"}
             /\ entries' = entries
             /\ stdout' = stdout
             /\ fs' = fs]_vars

\* "0" was entered at the listing of an empty storage.
C7_Witness ==
    /\ pc = "panicked" /\ err = "Selected index was invalid"
    /\ entries = <<>>
    /\ input = <<48>>
    /\ Len(visited) >= 1

=============================================================================
